---- MODULE Spec2Model ----
(***************************************************************************)
(* hec-receiver-mock: a mock HTTP Event Collector.  The repository holds   *)
(* two builds of the receiver:                                             *)
(*                                                                         *)
(*   "consumeLogs"    src/hec-receiver-mock.go: handleReq decodes the      *)
(*                    whole body, then consumeLogs applies the events in   *)
(*                    the request's own goroutine;                         *)
(*   "consumeEvents"  src/unnamed/part_000: receiveEvents sends every      *)
(*                    decoded event over an unbuffered channel to the      *)
(*                    consumeEvents goroutine, which applies it.           *)
(*                                                                         *)
(* net/http runs every request in a goroutine of its own, and neither      *)
(* build takes a lock: the accesses to performanceStat and to the fields   *)
(* of an eventSourceStat are separate steps that interleave.               *)
(***************************************************************************)
EXTENDS Integers, Sequences, FiniteSets, TLC

-----------------------------------------------------------------------------
(* Bounds of the model *)

MaxRequests == 2     \* requests taken in one run
MaxBatch == 2        \* fragments in a body sent by serial clients
MaxParBatch == 1     \* fragments in a body sent by parallel clients
MaxClock == 1        \* ticks of the clock in one run

(* The goroutines: one per request in flight, and the consumeEvents loop *)
Handlers == {1, 2}
Consumer == 0
Goroutines == {Consumer} \cup Handlers

Sources == {"app1", "app2"}

-----------------------------------------------------------------------------
(* Strings are sequences of one-character strings, so that slicing and    *)
(* parsing are computed as Go computes them.                               *)

endToken == <<"-", "-", "-", "e", "n", "d", "-", "-", "-">>

Digits == {"0", "1", "2", "3", "4", "5", "6", "7", "8", "9"}

DigitVal(c) ==
    CASE c = "0" -> 0 [] c = "1" -> 1 [] c = "2" -> 2 [] c = "3" -> 3
      [] c = "4" -> 4 [] c = "5" -> 5 [] c = "6" -> 6 [] c = "7" -> 7
      [] c = "8" -> 8 [] c = "9" -> 9

(* s[lo:hi] of Go, for 0 <= lo <= hi <= len(s) *)
Slice(s, lo, hi) == SubSeq(s, lo + 1, hi)

RECURSIVE ParseUint(_, _)
ParseUint(s, acc) ==
    IF s = <<>> THEN [err |-> FALSE, val |-> acc]
    ELSE IF Head(s) \notin Digits THEN [err |-> TRUE, val |-> 0]
    ELSE ParseUint(Tail(s), acc * 10 + DigitVal(Head(s)))

(* strconv.ParseInt(s, 10, 64): an optional sign, then one or more digits. *)
(* The payloads of the model stay far below 2^63, so the range error is    *)
(* never met.                                                              *)
ParseInt(s) ==
    IF s = <<>> THEN [err |-> TRUE, val |-> 0]
    ELSE IF Head(s) \in {"+", "-"}
         THEN IF Tail(s) = <<>> THEN [err |-> TRUE, val |-> 0]
              ELSE LET u == ParseUint(Tail(s), 0)
                   IN  IF u.err THEN u
                       ELSE [err |-> FALSE,
                             val |-> IF Head(s) = "-" THEN 0 - u.val ELSE u.val]
         ELSE ParseUint(s, 0)

RECURSIVE TrimLeft(_)
TrimLeft(s) ==
    IF s # <<>> /\ Head(s) = " " THEN TrimLeft(Tail(s)) ELSE s

RECURSIVE TrimRight(_)
TrimRight(s) ==
    IF s # <<>> /\ s[Len(s)] = " " THEN TrimRight(SubSeq(s, 1, Len(s) - 1)) ELSE s

TrimSpace(s) == TrimRight(TrimLeft(s))

(* The suffix handed to ParseInt: event.Event[10:], trimmed by consumeEvents only *)
CountTextFromNine(b, payload) ==
    IF b = "consumeEvents" THEN TrimSpace(Slice(payload, 9, Len(payload)))
    ELSE Slice(payload, 9, Len(payload))

CountText(b, payload) ==
    IF b = "consumeEvents" THEN TrimSpace(Slice(payload, 10, Len(payload)))
    ELSE Slice(payload, 10, Len(payload))

(* What lines 230-236 do with a payload:                                   *)
(*   "panic"  a slice bound is out of range (event.Event[:9] on fewer than *)
(*            9 bytes, event.Event[10:] on exactly 9)                      *)
(*   "plain"  the first 9 bytes are not the token                          *)
(*   "fatal"  ParseInt fails, log.Fatalln ends the process                 *)
(*   "count"  generatedCount is overwritten with val                       *)
endMarker(b, payload) ==
    IF Len(payload) < 9 THEN [kind |-> "panic", val |-> 0]
    ELSE IF Slice(payload, 0, 9) # endToken THEN [kind |-> "plain", val |-> 0]
    ELSE IF Len(payload) < 10 THEN [kind |-> "panic", val |-> 0]
    ELSE LET p == ParseInt(CountText(b, payload))
         IN  IF p.err THEN [kind |-> "fatal", val |-> 0]
             ELSE [kind |-> "count", val |-> p.val]

-----------------------------------------------------------------------------
(* Payloads and request bodies the model feeds to the receiver *)

plainPayload == <<"0", "1", "2", "3", "4", "5", "6", "7", "8", "9">>
shortPayload == <<"-", "-", "-", "e", "n", "d">>
end42Payload == endToken \o <<"4", "2">>
endSep42Payload == endToken \o <<":", "4", "2">>
endBadPayload == endToken \o <<":", "x">>
endZeroPayload == endToken \o <<":", "0">>
endNegPayload == endToken \o <<":", "-", "1">>

Payloads ==
    {plainPayload, shortPayload, end42Payload, endSep42Payload, endBadPayload}

(* The shapes of the JSON "time" member of a record *)
TimeShapes == {"absent", "number", "string", "badstring", "bool", "array", "object"}

(* A fragment of a body: a JSON object, text that is no JSON value, or a   *)
(* closing bracket (at which dec.More() reports false).                    *)
Object(t, s, p) == [kind |-> "object", time |-> t, source |-> s, event |-> p]
Malformed == [kind |-> "malformed", time |-> "absent", source |-> "app1", event |-> <<>>]
Closer == [kind |-> "close", time |-> "absent", source |-> "app1", event |-> <<>>]

(* Three families of clients feed the receiver.  Serial clients send one  *)
(* request at a time, with every kind of payload and of fragment; parallel *)
(* clients send requests that overlap, with ordinary payloads and one end  *)
(* marker; typed clients send one request at a time, of one record with    *)
(* every shape of the time member, or with an end marker declaring a       *)
(* count below 1.                                                          *)
Clients == {"serial", "parallel", "typed"}

Fragments(c) ==
    IF c = "serial"
    THEN {Object("absent", "app1", p) : p \in Payloads}
            \cup {Malformed}
    ELSE IF c = "typed"
    THEN {Object(t, "app1", plainPayload) : t \in TimeShapes}
            \cup {Object("absent", "app1", p) : p \in {endZeroPayload, endNegPayload}}
    ELSE {Object("absent", s, plainPayload) : s \in Sources}
            \cup {Object("absent", "app1", endSep42Payload)}

Bodies(c) ==
    UNION {[1..n -> Fragments(c)] :
              n \in 0..(IF c = "serial" THEN MaxBatch ELSE MaxParBatch)}

(* ContentLength 0 comes with no body; any other request has at least the  *)
(* bytes of its fragments and a trailing newline.                          *)
Requests(c) ==
    {[ContentLength |-> 0, Body |-> <<>>]}
        \cup {[ContentLength |-> Len(b) + 1, Body |-> b] : b \in Bodies(c)}

-----------------------------------------------------------------------------
(* Event.UnmarshalJSON: the time member may be a number or a numeric       *)
(* string; a string that ParseFloat rejects is an error; any other shape   *)
(* matches no case of the type switch and leaves Time nil.                 *)
UnmarshalJSON(f) ==
    IF f.kind # "object" THEN [err |-> TRUE, Time |-> "nil", Source |-> f.source, Event |-> f.event]
    ELSE CASE f.time = "number" -> [err |-> FALSE, Time |-> "t", Source |-> f.source, Event |-> f.event]
           [] f.time = "string" -> [err |-> FALSE, Time |-> "t", Source |-> f.source, Event |-> f.event]
           [] f.time = "badstring" -> [err |-> TRUE, Time |-> "nil", Source |-> f.source, Event |-> f.event]
           [] OTHER -> [err |-> FALSE, Time |-> "nil", Source |-> f.source, Event |-> f.event]

(* The build "consumeEvents" has no UnmarshalJSON: encoding/json decodes   *)
(* into Time *float64, which takes a number (or null) and nothing else.    *)
defaultUnmarshal(f) ==
    [err |-> f.kind # "object" \/ f.time \notin {"absent", "number"},
     Time |-> IF f.kind = "object" /\ f.time = "number" THEN "t" ELSE "nil",
     Source |-> f.source, Event |-> f.event]

(* dec.Decode(&msg) *)
Decode(b, f) == IF b = "consumeLogs" THEN UnmarshalJSON(f) ELSE defaultUnmarshal(f)

(* dec.More(): false at the end of the input and at a closing bracket *)
More(b) == b # <<>> /\ Head(b).kind # "close"

(* History: what Decode made of the time member of each record it read,    *)
(* up to the first error: the shape, and the error, the time or nil.       *)
RECURSIVE timesOf(_, _)
timesOf(b, frags) ==
    IF ~More(frags) THEN {}
    ELSE LET f == Head(frags)
             msg == Decode(b, f)
             seen == IF f.kind = "object"
                     THEN {[shape |-> f.time,
                            out |-> IF msg.err THEN "error" ELSE msg.Time]}
                     ELSE {}
         IN  IF msg.err THEN seen ELSE seen \cup timesOf(b, Tail(frags))

(* The decode loop of handleReq: the events decoded, or the first error *)
RECURSIVE decodeAll(_, _)
decodeAll(b, acc) ==
    IF ~More(b) THEN [err |-> FALSE, events |-> acc]
    ELSE LET msg == Decode("consumeLogs", Head(b))
         IN  IF msg.err THEN [err |-> TRUE, events |-> acc]
             ELSE decodeAll(Tail(b), Append(acc, msg))

-----------------------------------------------------------------------------
(* Responses *)

responseOK == "OK"
responseErrUnmarshalBody == "Failed to unmarshal message body"

NoResponse == [status |-> 0, body |-> ""]
(* resp.Write without WriteHeader sends 200 *)
OKResponse == [status |-> 200, body |-> responseOK]
AcceptedResponse == [status |-> 202, body |-> responseOK]
BadRequestResponse == [status |-> 400, body |-> responseErrUnmarshalBody]
(* net/http recovers a panicking handler and closes the connection *)
AbortedResponse == [status |-> -1, body |-> ""]

-----------------------------------------------------------------------------
(* State *)

VARIABLES
    build,            \* which of the two builds runs
    clients,          \* which family of clients feeds it
    exit,             \* "running", or why the process ended
    now,              \* the wall clock read by time.Now()
    started,          \* requests accepted by the listener so far
    heap,             \* the eventSourceStat values allocated, by address
    performanceStat,  \* source -> address of its eventSourceStat, 0 when absent
    pc,               \* goroutine -> where it stands
    kind,             \* handler -> "ingest" or "summary"
    contentLength,    \* handler -> req.ContentLength
    body,             \* handler -> fragments the decoder has not read yet
    events,           \* goroutine -> events it still has to apply
    esStat,           \* goroutine -> the stat it holds a pointer to
    tmp,              \* goroutine -> the value read by a += in progress
    resp,             \* handler -> what was written to the ResponseWriter
    src,              \* handler -> the key the summary loop stands on
    visited,          \* handler -> keys the summary loop has produced
    startKeys,        \* handler -> keys present when the summary loop began
    sum,              \* handler -> the summaryData under construction
    result,           \* handler -> the summaryData appended so far
    delivered,        \* history: source -> events decoded, and their bytes
    whole,            \* history: source -> its stat as each application left it
    before,           \* history: the accumulator when the latest request began
    flags             \* history: what the requests so far contained

procVars == <<pc, kind, contentLength, body, events, esStat, tmp, resp>>
sumVars == <<src, visited, startKeys, sum, result>>
accVars == <<heap, performanceStat>>
histVars == <<delivered, whole, before, flags>>
vars == <<build, clients, exit, now, started, accVars, procVars, sumVars, histVars>>

Builds == {"consumeLogs", "consumeEvents"}

free(h) == pc[h] \in {"idle", "done"}

(* nothing of an earlier request is still being applied *)
quiet == (\A h \in Handlers : free(h)) /\ pc[Consumer] \in {"select", "absent"}

NoSnapshot == [ok |-> FALSE, h |-> 0,
               performanceStat |-> [s \in Sources |-> 0], heap |-> <<>>]

(* A request may be taken by handler h: the bound of the run, and serial   *)
(* clients wait for the answer to the request before.  The goroutines of   *)
(* net/http are interchangeable: the request goes to the first free one.   *)
mayStart(h) ==
    /\ free(h) /\ started < MaxRequests
    /\ \A o \in Handlers : o < h => ~free(o)
    /\ clients # "parallel" => \A o \in Handlers : free(o)

NoFloat == [k |-> "num", n |-> 0, d |-> 1]
NoSum == [Source |-> "", Eps |-> NoFloat, EventsReceived |-> 0,
          Thorughput |-> NoFloat, DataIngestRate |-> NoFloat,
          BeginTime |-> 0, EndTime |-> 0]

(* NewLogsReceiver: an empty map; Start launches the consumeEvents         *)
(* goroutine in the build that has one.                                    *)
Init ==
    /\ build \in Builds
    /\ clients \in Clients
    /\ exit = "running"
    /\ now = 0
    /\ started = 0
    /\ heap = <<>>
    /\ performanceStat = [s \in Sources |-> 0]
    /\ pc = [g \in Goroutines |->
                IF g = Consumer
                THEN IF build = "consumeEvents" THEN "select" ELSE "absent"
                ELSE "idle"]
    /\ kind = [h \in Handlers |-> "ingest"]
    /\ contentLength = [h \in Handlers |-> 0]
    /\ body = [h \in Handlers |-> <<>>]
    /\ events = [g \in Goroutines |-> <<>>]
    /\ esStat = [g \in Goroutines |-> 0]
    /\ tmp = [g \in Goroutines |-> 0]
    /\ resp = [h \in Handlers |-> NoResponse]
    /\ src = [h \in Handlers |-> ""]
    /\ visited = [h \in Handlers |-> {}]
    /\ startKeys = [h \in Handlers |-> {}]
    /\ sum = [h \in Handlers |-> NoSum]
    /\ result = [h \in Handlers |-> <<>>]
    /\ delivered = [s \in Sources |-> [n |-> 0, bytes |-> 0]]
    /\ whole = [s \in Sources |-> {}]
    /\ before = NoSnapshot
    /\ flags = [marker |-> FALSE, reject |-> FALSE, times |-> {}]

(* the keys of the map *)
keys == {s \in Sources : performanceStat[s] # 0}

isMarker(payload) == Len(payload) >= 9 /\ Slice(payload, 0, 9) = endToken

RECURSIVE sumBytes(_)
sumBytes(evs) ==
    IF evs = <<>> THEN 0 ELSE Len(Head(evs).Event) + sumBytes(Tail(evs))

countOf(evs, s) == Cardinality({i \in 1..Len(evs) : evs[i].Source = s})
bytesOf(evs, s) ==
    sumBytes(SelectSeq(evs, LAMBDA e : e.Source = s))

(* History kept when handler h takes a new request: the accumulator as it *)
(* stands, when nothing else is in progress.                               *)
noteStart(h) ==
    before' = IF quiet
              THEN [ok |-> TRUE, h |-> h, performanceStat |-> performanceStat,
                    heap |-> heap]
              ELSE NoSnapshot

(* History kept when the events evs are decoded, the decoder failing on a  *)
(* fragment when failed, seen being what it made of the time members.      *)
noteDecoded(evs, failed, seen) ==
    /\ delivered' = [s \in Sources |->
                        [n |-> delivered[s].n + countOf(evs, s),
                         bytes |-> delivered[s].bytes + bytesOf(evs, s)]]
    /\ flags' = [marker |-> flags.marker
                              \/ \E i \in 1..Len(evs) : isMarker(evs[i].Event),
                 reject |-> flags.reject \/ failed,
                 times |-> flags.times \cup seen]

-----------------------------------------------------------------------------
(* Ingest, build "consumeLogs": handleReq (hec-receiver-mock.go:155-172)   *)

(* line 156 *)
emptyBodyNever(r) == FALSE
emptyBody(r) == r.ContentLength = 0

(* failRequest: the status, then the JSON string *)
failRequest(status, jsonResponse) == [status |-> status, body |-> jsonResponse]

(* The request is taken, the length is tested and the body is decoded, all *)
(* on the handler's own stack: one step.                                   *)
handleReq(h, r) ==
    /\ exit = "running" /\ build = "consumeLogs"
    /\ mayStart(h)
    /\ started' = started + 1
    /\ kind' = [kind EXCEPT ![h] = "ingest"]
    /\ contentLength' = [contentLength EXCEPT ![h] = r.ContentLength]
    /\ body' = [body EXCEPT ![h] = <<>>]
    /\ noteStart(h)
    /\ IF emptyBody(r)
       THEN /\ resp' = [resp EXCEPT ![h] = OKResponse]
            /\ pc' = [pc EXCEPT ![h] = "done"]
            /\ events' = [events EXCEPT ![h] = <<>>]
            /\ noteDecoded(<<>>, FALSE, {})
       ELSE LET d == decodeAll(r.Body, <<>>)
            IN  /\ noteDecoded(d.events, d.err, timesOf(build, r.Body))
                /\ IF d.err
                   THEN /\ resp' = [resp EXCEPT ![h] =
                                       failRequest(400, responseErrUnmarshalBody)]
                        /\ pc' = [pc EXCEPT ![h] = "done"]
                        /\ events' = [events EXCEPT ![h] = <<>>]
                   ELSE /\ resp' = [resp EXCEPT ![h] = NoResponse]
                        /\ pc' = [pc EXCEPT ![h] =
                                     IF d.events = <<>> THEN "respond" ELSE "lookup"]
                        /\ events' = [events EXCEPT ![h] = d.events]
    /\ UNCHANGED <<build, clients, exit, now, accVars, esStat, tmp, sumVars, whole>>

-----------------------------------------------------------------------------
(* Ingest, build "consumeEvents": receiveEvents (part_000:142-160)         *)

receiveEvents(h, r) ==
    /\ exit = "running" /\ build = "consumeEvents"
    /\ mayStart(h)
    /\ started' = started + 1
    /\ kind' = [kind EXCEPT ![h] = "ingest"]
    /\ contentLength' = [contentLength EXCEPT ![h] = r.ContentLength]
    /\ events' = [events EXCEPT ![h] = <<>>]
    /\ noteStart(h)
    /\ noteDecoded(<<>>, FALSE, {})
    /\ IF emptyBody(r)
       THEN /\ resp' = [resp EXCEPT ![h] = OKResponse]
            /\ pc' = [pc EXCEPT ![h] = "done"]
            /\ body' = [body EXCEPT ![h] = <<>>]
       ELSE /\ resp' = [resp EXCEPT ![h] = NoResponse]
            /\ pc' = [pc EXCEPT ![h] = "more"]
            /\ body' = [body EXCEPT ![h] = r.Body]
    /\ UNCHANGED <<build, clients, exit, now, accVars, esStat, tmp, sumVars, whole>>

(* One turn of the decode loop, lines 148-157: the answer when the body is *)
(* exhausted or a fragment fails, else the event is ready to be sent.      *)
decodeOne(h) ==
    /\ exit = "running" /\ pc[h] = "more"
    /\ IF ~More(body[h])
       THEN /\ resp' = [resp EXCEPT ![h] = AcceptedResponse]
            /\ pc' = [pc EXCEPT ![h] = "done"]
            /\ UNCHANGED <<body, events, delivered, flags>>
       ELSE LET msg == Decode(build, Head(body[h]))
            IN  IF msg.err
                THEN /\ resp' = [resp EXCEPT ![h] =
                                    failRequest(400, responseErrUnmarshalBody)]
                     /\ pc' = [pc EXCEPT ![h] = "done"]
                     /\ noteDecoded(<<>>, TRUE, timesOf(build, <<Head(body[h])>>))
                     /\ UNCHANGED <<body, events>>
                ELSE /\ events' = [events EXCEPT ![h] = <<msg>>]
                     /\ body' = [body EXCEPT ![h] = Tail(body[h])]
                     /\ pc' = [pc EXCEPT ![h] = "send"]
                     /\ noteDecoded(<<msg>>, FALSE, timesOf(build, <<Head(body[h])>>))
                     /\ UNCHANGED resp
    /\ UNCHANGED <<build, clients, exit, now, started, accVars, kind, contentLength,
                   esStat, tmp, sumVars, whole, before>>

(* r.receivedEvents <- &msg meets case event := <-r.receivedEvents: the    *)
(* channel has no buffer, so the send and the receive are one step.  The   *)
(* timer branch of consumeEvents touches only the window counters          *)
(* eventCount, byteReceived, beginTime and endTime of the receiver, which  *)
(* nothing else reads; they are left out.                                  *)
receive(h) ==
    /\ exit = "running" /\ pc[Consumer] = "select" /\ pc[h] = "send"
    /\ events' = [events EXCEPT ![Consumer] = events[h], ![h] = <<>>]
    /\ pc' = [pc EXCEPT ![Consumer] = "lookup", ![h] = "more"]
    /\ UNCHANGED <<build, clients, exit, now, started, accVars, kind, contentLength,
                   body, esStat, tmp, resp, sumVars, histVars>>

-----------------------------------------------------------------------------
(* Applying one event: the loop body of consumeLogs                        *)
(* (hec-receiver-mock.go:217-236) and of consumeEvents (part_000:184-203), *)
(* by goroutine g, one step per access to shared memory.                   *)

cur(g) == Head(events[g])

applying(g) ==
    pc[g] \in {"lookup", "create", "load", "evRead", "evWrite", "byRead",
               "byWrite", "endTime", "marker"}

newStatZeroEndTime ==
    [eventsReceived |-> 0, beginTime |-> now, bytesReceived |-> 0,
     endTime |-> 0, generatedCount |-> 1]

newStat == [eventsReceived |-> 0, beginTime |-> now, bytesReceived |-> 0,
            endTime |-> now, generatedCount |-> 1]

(* if _, ok := r.performanceStat[event.Source]; !ok *)
lookup(g) ==
    /\ exit = "running" /\ pc[g] = "lookup"
    /\ pc' = [pc EXCEPT ![g] =
                 IF performanceStat[cur(g).Source] = 0 THEN "create" ELSE "load"]
    /\ UNCHANGED <<build, clients, exit, now, started, accVars, kind, contentLength,
                   body, events, esStat, tmp, resp, sumVars, histVars>>

(* r.performanceStat[event.Source] = &eventSourceStat{...} *)
create(g) ==
    /\ exit = "running" /\ pc[g] = "create"
    /\ heap' = Append(heap, newStat)
    /\ performanceStat' = [performanceStat EXCEPT ![cur(g).Source] = Len(heap) + 1]
    /\ pc' = [pc EXCEPT ![g] = "load"]
    /\ UNCHANGED <<build, clients, exit, now, started, kind, contentLength,
                   body, events, esStat, tmp, resp, sumVars, histVars>>

(* esStat := r.performanceStat[event.Source] *)
loadFirstStat(g) ==
    /\ exit = "running" /\ pc[g] = "load"
    /\ esStat' = [esStat EXCEPT ![g] = 1]
    /\ pc' = [pc EXCEPT ![g] = "evRead"]
    /\ UNCHANGED <<build, clients, exit, now, started, accVars, kind, contentLength,
                   body, events, tmp, resp, sumVars, histVars>>

load(g) ==
    /\ exit = "running" /\ pc[g] = "load"
    /\ esStat' = [esStat EXCEPT ![g] = performanceStat[cur(g).Source]]
    /\ pc' = [pc EXCEPT ![g] = "evRead"]
    /\ UNCHANGED <<build, clients, exit, now, started, accVars, kind, contentLength,
                   body, events, tmp, resp, sumVars, histVars>>

(* esStat.eventsReceived += 1: the read, then the write *)
evRead(g) ==
    /\ exit = "running" /\ pc[g] = "evRead"
    /\ tmp' = [tmp EXCEPT ![g] = heap[esStat[g]].eventsReceived]
    /\ pc' = [pc EXCEPT ![g] = "evWrite"]
    /\ UNCHANGED <<build, clients, exit, now, started, accVars, kind, contentLength,
                   body, events, esStat, resp, sumVars, histVars>>

evWriteTwice(g) ==
    /\ exit = "running" /\ pc[g] = "evWrite"
    /\ heap' = [heap EXCEPT ![esStat[g]].eventsReceived = tmp[g] + 2]
    /\ pc' = [pc EXCEPT ![g] = "byRead"]
    /\ UNCHANGED <<build, clients, exit, now, started, performanceStat, kind,
                   contentLength, body, events, esStat, tmp, resp, sumVars,
                   histVars>>

evWrite(g) ==
    /\ exit = "running" /\ pc[g] = "evWrite"
    /\ heap' = [heap EXCEPT ![esStat[g]].eventsReceived = tmp[g] + 1]
    /\ pc' = [pc EXCEPT ![g] = "byRead"]
    /\ UNCHANGED <<build, clients, exit, now, started, performanceStat, kind,
                   contentLength, body, events, esStat, tmp, resp, sumVars,
                   histVars>>

(* esStat.bytesReceived += float64(len(event.Event)) *)
byRead(g) ==
    /\ exit = "running" /\ pc[g] = "byRead"
    /\ tmp' = [tmp EXCEPT ![g] = heap[esStat[g]].bytesReceived]
    /\ pc' = [pc EXCEPT ![g] = "byWrite"]
    /\ UNCHANGED <<build, clients, exit, now, started, accVars, kind, contentLength,
                   body, events, esStat, resp, sumVars, histVars>>

byWrite(g) ==
    /\ exit = "running" /\ pc[g] = "byWrite"
    /\ heap' = [heap EXCEPT ![esStat[g]].bytesReceived = tmp[g] + Len(cur(g).Event)]
    /\ pc' = [pc EXCEPT ![g] = "endTime"]
    /\ UNCHANGED <<build, clients, exit, now, started, performanceStat, kind,
                   contentLength, body, events, esStat, tmp, resp, sumVars,
                   histVars>>

(* esStat.endTime = time.Now() *)
setEndTime(g) ==
    /\ exit = "running" /\ pc[g] = "endTime"
    /\ heap' = [heap EXCEPT ![esStat[g]].endTime = now]
    /\ pc' = [pc EXCEPT ![g] = "marker"]
    /\ UNCHANGED <<build, clients, exit, now, started, performanceStat, kind,
                   contentLength, body, events, esStat, tmp, resp, sumVars,
                   histVars>>

(* The event is applied: the next one of the batch, the answer, or back to *)
(* the select of consumeEvents.                                            *)
applied(g, h2) ==
    /\ events' = [events EXCEPT ![g] = Tail(events[g])]
    /\ esStat' = [esStat EXCEPT ![g] = 0]
    /\ tmp' = [tmp EXCEPT ![g] = 0]
    /\ pc' = [pc EXCEPT ![g] =
                 IF g = Consumer THEN "select"
                 ELSE IF Tail(events[g]) = <<>> THEN "respond" ELSE "lookup"]
    /\ whole' = [whole EXCEPT ![cur(g).Source] = @ \cup {h2[esStat[g]]}]

(* if event.Event[:9] == "---end---" { ... }                               *)
(* A panic in a handler is recovered by net/http, which closes the         *)
(* connection without an answer; in the consumeEvents goroutine nothing    *)
(* recovers it and the process ends.  log.Fatalln ends the process.        *)
marker(g) ==
    /\ exit = "running" /\ pc[g] = "marker"
    /\ LET m == endMarker(build, cur(g).Event)
       IN  CASE m.kind = "panic" ->
                  IF g = Consumer
                  THEN /\ exit' = "panic"
                       /\ UNCHANGED <<heap, pc, events, esStat, tmp, resp, whole>>
                  ELSE /\ resp' = [resp EXCEPT ![g] = AbortedResponse]
                       /\ pc' = [pc EXCEPT ![g] = "done"]
                       /\ events' = [events EXCEPT ![g] = <<>>]
                       /\ esStat' = [esStat EXCEPT ![g] = 0]
                       /\ tmp' = [tmp EXCEPT ![g] = 0]
                       /\ UNCHANGED <<heap, exit, whole>>
             [] m.kind = "fatal" ->
                  /\ exit' = "fatal"
                  /\ UNCHANGED <<heap, pc, events, esStat, tmp, resp, whole>>
             [] m.kind = "count" ->
                  /\ heap' = [heap EXCEPT ![esStat[g]].generatedCount = m.val]
                  /\ applied(g, heap')
                  /\ UNCHANGED <<exit, resp>>
             [] OTHER ->
                  /\ applied(g, heap)
                  /\ UNCHANGED <<heap, exit, resp>>
    /\ UNCHANGED <<build, clients, now, started, performanceStat, kind, contentLength,
                   body, sumVars, delivered, before, flags>>

(* resp.WriteHeader(http.StatusAccepted); resp.Write(okRespBody) *)
respond(h) ==
    /\ exit = "running" /\ pc[h] = "respond"
    /\ resp' = [resp EXCEPT ![h] = AcceptedResponse]
    /\ pc' = [pc EXCEPT ![h] = "done"]
    /\ UNCHANGED <<build, clients, exit, now, started, accVars, kind, contentLength,
                   body, events, esStat, tmp, sumVars, histVars>>

-----------------------------------------------------------------------------
(* Summary: calculateStats and summary (hec-receiver-mock.go:174-205,      *)
(* part_000:209-238)                                                       *)

(* float64(a) / float64(b) *)
fdiv(a, b) ==
    IF b # 0 THEN [k |-> "num", n |-> a, d |-> b]
    ELSE IF a > 0 THEN [k |-> "+Inf", n |-> 0, d |-> 0]
    ELSE IF a < 0 THEN [k |-> "-Inf", n |-> 0, d |-> 0]
    ELSE [k |-> "NaN", n |-> 0, d |-> 0]

finite(f) == f.k = "num"

(* n/d rounded to the nearest integer, ties to even, for d > 0 *)
roundPos(n, d) ==
    LET q == n \div d
        r == n % d
    IN  IF 2 * r < d THEN q
        ELSE IF 2 * r > d THEN q + 1
        ELSE IF q % 2 = 0 THEN q ELSE q + 1

(* fmt.Sprintf("%0.f", f): the rounded number, or the text of the special value *)
sprintf0f(f) ==
    IF ~finite(f) THEN [k |-> f.k, n |-> 0, d |-> 0]
    ELSE [k |-> "text",
          n |-> IF f.d > 0 THEN roundPos(f.n, f.d) ELSE roundPos(0 - f.n, 0 - f.d),
          d |-> 1]

seconds(stat) == stat.endTime - stat.beginTime

(* the members of summaryData, as each build computes them *)
epsOf(b, stat) ==
    IF b = "consumeLogs" THEN fdiv(stat.eventsReceived, seconds(stat))
    ELSE sprintf0f(fdiv(stat.eventsReceived, seconds(stat)))

thorughputOf(b, stat) ==
    IF b = "consumeLogs" THEN fdiv(stat.bytesReceived, 1024 * 1024)
    ELSE sprintf0f(fdiv(stat.bytesReceived, 1024))

dataIngestRateOf(b, stat) ==
    IF b = "consumeLogs" THEN fdiv(stat.eventsReceived, stat.generatedCount)
    ELSE sprintf0f(fdiv(stat.eventsReceived * 100, stat.generatedCount))

(* The request is taken; var result []summaryData is nil *)
summary(h) ==
    /\ exit = "running"
    /\ mayStart(h)
    /\ started' = started + 1
    /\ kind' = [kind EXCEPT ![h] = "summary"]
    /\ contentLength' = [contentLength EXCEPT ![h] = 0]
    /\ body' = [body EXCEPT ![h] = <<>>]
    /\ events' = [events EXCEPT ![h] = <<>>]
    /\ resp' = [resp EXCEPT ![h] = NoResponse]
    /\ result' = [result EXCEPT ![h] = <<>>]
    /\ visited' = [visited EXCEPT ![h] = {}]
    /\ startKeys' = [startKeys EXCEPT ![h] = keys]
    /\ sum' = [sum EXCEPT ![h] = NoSum]
    /\ src' = [src EXCEPT ![h] = ""]
    /\ pc' = [pc EXCEPT ![h] = "range"]
    /\ noteStart(h)
    /\ noteDecoded(<<>>, FALSE, {})
    /\ UNCHANGED <<build, clients, exit, now, accVars, esStat, tmp, whole>>

(* for source, stats := range r.performanceStat: the keys come in any      *)
(* order; a key inserted while the loop runs is produced or skipped.       *)
rangeNext(h, s) ==
    /\ exit = "running" /\ pc[h] = "range"
    /\ s \in keys \ visited[h]
    /\ src' = [src EXCEPT ![h] = s]
    /\ esStat' = [esStat EXCEPT ![h] = performanceStat[s]]
    /\ visited' = [visited EXCEPT ![h] = @ \cup {s}]
    /\ sum' = [sum EXCEPT ![h] = [NoSum EXCEPT !.Source = s]]
    /\ pc' = [pc EXCEPT ![h] = "eps"]
    /\ UNCHANGED <<build, clients, exit, now, started, accVars, kind, contentLength,
                   body, events, tmp, resp, startKeys, result, histVars>>

rangeEnd(h) ==
    /\ exit = "running" /\ pc[h] = "range"
    /\ startKeys[h] \subseteq visited[h]
    /\ visited' = [visited EXCEPT ![h] = {}]
    /\ startKeys' = [startKeys EXCEPT ![h] = {}]
    /\ pc' = [pc EXCEPT ![h] = "marshal"]
    /\ UNCHANGED <<build, clients, exit, now, started, accVars, kind, contentLength,
                   body, events, esStat, tmp, resp, src, sum, result, histVars>>

(* Eps: ... *)
readEps(h) ==
    /\ exit = "running" /\ pc[h] = "eps"
    /\ sum' = [sum EXCEPT ![h].Eps = epsOf(build, heap[esStat[h]])]
    /\ pc' = [pc EXCEPT ![h] = "thorughput"]
    /\ UNCHANGED <<build, clients, exit, now, started, accVars, kind, contentLength,
                   body, events, esStat, tmp, resp, src, visited, startKeys,
                   result, histVars>>

(* Thorughput: ... *)
readThorughput(h) ==
    /\ exit = "running" /\ pc[h] = "thorughput"
    /\ sum' = [sum EXCEPT ![h].Thorughput = thorughputOf(build, heap[esStat[h]])]
    /\ pc' = [pc EXCEPT ![h] = "rate"]
    /\ UNCHANGED <<build, clients, exit, now, started, accVars, kind, contentLength,
                   body, events, esStat, tmp, resp, src, visited, startKeys,
                   result, histVars>>

(* DataIngestRate: ... *)
readDataIngestRate(h) ==
    /\ exit = "running" /\ pc[h] = "rate"
    /\ sum' = [sum EXCEPT ![h].DataIngestRate =
                                  dataIngestRateOf(build, heap[esStat[h]])]
    /\ pc' = [pc EXCEPT ![h] = "received"]
    /\ UNCHANGED <<build, clients, exit, now, started, accVars, kind, contentLength,
                   body, events, esStat, tmp, resp, src, visited, startKeys,
                   result, histVars>>

(* EventsReceived, and in consumeLogs BeginTime and EndTime; then          *)
(* result = append(result, sum)                                            *)
readReceived(h) ==
    /\ exit = "running" /\ pc[h] = "received"
    /\ LET st == heap[esStat[h]]
           done == [sum[h] EXCEPT
                       !.EventsReceived = st.eventsReceived,
                       !.BeginTime = IF build = "consumeLogs" THEN st.beginTime ELSE 0,
                       !.EndTime = IF build = "consumeLogs" THEN st.endTime ELSE 0]
       IN  /\ result' = [result EXCEPT ![h] = Append(@, done)]
           /\ sum' = [sum EXCEPT ![h] = NoSum]
    /\ src' = [src EXCEPT ![h] = ""]
    /\ esStat' = [esStat EXCEPT ![h] = 0]
    /\ pc' = [pc EXCEPT ![h] = "range"]
    /\ UNCHANGED <<build, clients, exit, now, started, accVars, kind, contentLength,
                   body, events, tmp, resp, visited, startKeys, histVars>>

(* json.Marshal: a nil slice is rendered null; a float64 that is infinite  *)
(* or not a number is an UnsupportedValueError.  consumeEvents marshals    *)
(* strings only.                                                           *)
marshalErr(b, res) ==
    /\ b = "consumeLogs"
    /\ \E i \in 1..Len(res) :
          ~finite(res[i].Eps) \/ ~finite(res[i].Thorughput)
              \/ ~finite(res[i].DataIngestRate)

marshalText(res) == IF res = <<>> THEN "null" ELSE "array"

marshal(h) ==
    /\ exit = "running" /\ pc[h] = "marshal"
    /\ resp' = [resp EXCEPT ![h] =
                   IF marshalErr(build, result[h])
                   THEN [status |-> 500, body |-> "json: unsupported value"]
                   ELSE [status |-> 202, body |-> marshalText(result[h])]]
    /\ pc' = [pc EXCEPT ![h] = "done"]
    /\ UNCHANGED <<build, clients, exit, now, started, accVars, kind, contentLength,
                   body, events, esStat, tmp, sumVars, histVars>>

-----------------------------------------------------------------------------
(* The clock, and what the Go runtime does with unsynchronised map access  *)

Tick ==
    /\ exit = "running" /\ now < MaxClock
    /\ now' = now + 1
    /\ UNCHANGED <<build, clients, exit, started, accVars, procVars, sumVars, histVars>>

(* A goroutine about to assign to the map while another is about to read,  *)
(* assign to or range over it: the runtime may detect it ("fatal error:    *)
(* concurrent map writes", "... map read and map write", "... map          *)
(* iteration and map write") and end the process.                          *)
mapAccess(g) == pc[g] \in {"lookup", "create", "load", "range"}

concurrentMapAccess(g, o) ==
    /\ exit = "running"
    /\ g # o /\ pc[g] = "create" /\ mapAccess(o)
    /\ exit' = "throw"
    /\ UNCHANGED <<build, clients, now, started, accVars, procVars, sumVars, histVars>>

-----------------------------------------------------------------------------
Next ==
    \/ \E h \in Handlers, r \in Requests(clients) : handleReq(h, r)
    \/ \E h \in Handlers, r \in Requests(clients) : receiveEvents(h, r)
    \/ \E h \in Handlers : decodeOne(h)
    \/ \E h \in Handlers : receive(h)
    \/ \E g \in Goroutines : lookup(g)
    \/ \E g \in Goroutines : create(g)
    \/ \E g \in Goroutines : load(g)
    \/ \E g \in Goroutines : evRead(g)
    \/ \E g \in Goroutines : evWrite(g)
    \/ \E g \in Goroutines : byRead(g)
    \/ \E g \in Goroutines : byWrite(g)
    \/ \E g \in Goroutines : setEndTime(g)
    \/ \E g \in Goroutines : marker(g)
    \/ \E h \in Handlers : respond(h)
    \/ \E h \in Handlers : summary(h)
    \/ \E h \in Handlers, s \in Sources : rangeNext(h, s)
    \/ \E h \in Handlers : rangeEnd(h)
    \/ \E h \in Handlers : readEps(h)
    \/ \E h \in Handlers : readThorughput(h)
    \/ \E h \in Handlers : readDataIngestRate(h)
    \/ \E h \in Handlers : readReceived(h)
    \/ \E h \in Handlers : marshal(h)
    \/ Tick
    \/ \E g \in Goroutines, o \in Goroutines : concurrentMapAccess(g, o)

Spec == Init /\ [][Next]_vars

-----------------------------------------------------------------------------
(* Properties *)

hasStat(s) == performanceStat[s] # 0
statOf(s) == heap[performanceStat[s]]

(* goroutine g takes its marker step: lines 230-236 for the event in hand *)
markerStep(g) ==
    pc[g] = "marker" /\ (pc'[g] # "marker" \/ exit' # exit)

(* handler h takes a request in this step *)
takes(h) == mayStart(h) /\ started' = started + 1

(* the value of a string of decimal digits, by the weight of each place *)
RECURSIVE pow10(_)
pow10(k) == IF k = 0 THEN 1 ELSE 10 * pow10(k - 1)

RECURSIVE decimalValue(_)
decimalValue(s) ==
    IF s = <<>> THEN 0
    ELSE DigitVal(Head(s)) * pow10(Len(s) - 1) + decimalValue(Tail(s))

allDigits(s) == s # <<>> /\ \A i \in 1..Len(s) : s[i] \in Digits

(* C1: from an empty accumulator, once serial requests carrying only       *)
(* decodable events of source "app1", none an end marker, are over, the    *)
(* stat of "app1" counts every event and every byte of them.               *)
C1_CountsEveryEvent ==
    (/\ clients = "serial" /\ exit = "running" /\ quiet
     /\ ~flags.marker /\ ~flags.reject
     /\ delivered["app1"].n > 0 /\ delivered["app2"].n = 0)
        => /\ hasStat("app1")
           /\ statOf("app1").eventsReceived = delivered["app1"].n
           /\ statOf("app1").bytesReceived = delivered["app1"].bytes

(* C2: a request answered 400 leaves the accumulator as it was when the    *)
(* request began (no other request being in progress).                     *)
C2_AllOrNothing ==
    \A h \in Handlers :
        (/\ before.ok /\ before.h = h /\ quiet
         /\ kind[h] = "ingest" /\ resp[h].status = 400)
            => /\ performanceStat = before.performanceStat
               /\ heap = before.heap

(* C3: once every request of the parallel clients (valid events only) is   *)
(* answered and applied, each source counts every event and byte sent.     *)
C3_NoLostUpdates ==
    (clients = "parallel" /\ exit = "running" /\ quiet)
        => \A s \in Sources :
              delivered[s].n > 0
                  => /\ hasStat(s)
                     /\ statOf(s).eventsReceived = delivered[s].n
                     /\ statOf(s).bytesReceived = delivered[s].bytes

(* the summaryData computed from one stat read as a whole *)
entryOf(b, s, st) ==
    [Source |-> s, Eps |-> epsOf(b, st), EventsReceived |-> st.eventsReceived,
     Thorughput |-> thorughputOf(b, st), DataIngestRate |-> dataIngestRateOf(b, st),
     BeginTime |-> IF b = "consumeLogs" THEN st.beginTime ELSE 0,
     EndTime |-> IF b = "consumeLogs" THEN st.endTime ELSE 0]

(* C4: with parallel clients (every application of an event runs to its   *)
(* end), every entry of a finished summary is the entry of its source's    *)
(* stat as some whole application of an event left it.                     *)
C4_NoTornReads ==
    \A h \in Handlers :
        (/\ clients = "parallel" /\ exit = "running" /\ quiet
         /\ kind[h] = "summary" /\ pc[h] = "done" /\ resp[h].status = 202)
            => \A i \in 1..Len(result[h]) :
                  \E st \in whole[result[h][i].Source] :
                      result[h][i] = entryOf(build, result[h][i].Source, st)

(* C5, as claimed: applying "---end---" followed at once by the digits of  *)
(* n sets generatedCount to n.                                             *)
C5_EndMarkerValue ==
    [][\A g \in Goroutines :
          (/\ markerStep(g)
           /\ isMarker(cur(g).Event)
           /\ allDigits(Slice(cur(g).Event, 9, Len(cur(g).Event))))
              => /\ exit' = "running"
                 /\ heap'[esStat[g]].generatedCount
                       = decimalValue(Slice(cur(g).Event, 9, Len(cur(g).Event)))]_vars

(* C5, amended: applying "---end---", one more byte, and then the digits   *)
(* of n sets generatedCount to n: the byte after the token is skipped, so  *)
(* "---end---42" sets it to 2.                                             *)
C5_EndMarkerSkipsOneByte ==
    [][\A g \in Goroutines :
          (/\ markerStep(g)
           /\ isMarker(cur(g).Event)
           /\ allDigits(Slice(cur(g).Event, 10, Len(cur(g).Event))))
              => /\ exit' = "running"
                 /\ heap'[esStat[g]].generatedCount
                       = decimalValue(Slice(cur(g).Event, 10, Len(cur(g).Event)))
                 /\ cur(g).Event = end42Payload
                       => heap'[esStat[g]].generatedCount = 2]_vars

C5_Witness ==
    /\ \E s \in Sources : hasStat(s) /\ statOf(s).generatedCount = 42
    /\ exit = "running"

(* C6: an event with fewer than 9 bytes of payload is applied like any     *)
(* other: the goroutine goes on to the next event or to the answer, the    *)
(* process lives and generatedCount is untouched.                          *)
C6_ShortPayloadIsOrdinary ==
    [][\A g \in Goroutines :
          (markerStep(g) /\ Len(cur(g).Event) < 9)
              => /\ exit' = "running"
                 /\ pc'[g] \in {"lookup", "respond", "select"}
                 /\ heap' = heap]_vars

(* C7: a request of ContentLength 0 is answered "OK" at once, the handler  *)
(* is done with it, and the accumulator is as before.                      *)
C7_EmptyBodyChangesNothing ==
    [][\A h \in Handlers :
          (takes(h) /\ kind'[h] = "ingest" /\ contentLength'[h] = 0)
              => /\ resp'[h] = OKResponse
                 /\ pc'[h] = "done"
                 /\ events'[h] = <<>>
                 /\ performanceStat' = performanceStat
                 /\ heap' = heap]_vars

C7_Witness ==
    \E h \in Handlers :
        /\ pc[h] = "done" /\ kind[h] = "ingest" /\ contentLength[h] = 0
        /\ resp[h] = OKResponse
        /\ heap # <<>>

(* C8: an end marker whose count does not parse leaves the process running *)
C8_BadMarkerIsRecoverable ==
    [][\A g \in Goroutines :
          (/\ markerStep(g)
           /\ isMarker(cur(g).Event)
           /\ Len(cur(g).Event) >= 10
           /\ ParseInt(CountText(build, cur(g).Event)).err)
              => exit' = "running"]_vars

(* C9: every ingest request that is over was answered 200 "OK" (length 0), *)
(* or else 400 or 202.                                                     *)
C9_ResponseMapping ==
    \A h \in Handlers :
        (pc[h] = "done" /\ kind[h] = "ingest")
            => /\ contentLength[h] = 0 => resp[h] = OKResponse
               /\ contentLength[h] # 0
                     => resp[h] \in {BadRequestResponse, AcceptedResponse}

(* C10: a summary that ran alone is answered 202 with a JSON array holding *)
(* one entry per source of the map, each with its eventsReceived.          *)
C10_SummaryListsEverySource ==
    \A h \in Handlers :
        (/\ kind[h] = "summary" /\ pc[h] = "done"
         /\ before.ok /\ before.h = h /\ quiet /\ exit = "running")
            => /\ resp[h] = [status |-> 202, body |-> "array"]
               /\ Len(result[h]) = Cardinality(keys)
               /\ \A s \in keys :
                     \E i \in 1..Len(result[h]) :
                         /\ result[h][i].Source = s
                         /\ result[h][i].EventsReceived = statOf(s).eventsReceived

(* C11: a summary that ran alone while some source had endTime equal to    *)
(* beginTime is answered 202 with one entry per source.                    *)
C11_ZeroDurationSummarySucceeds ==
    \A h \in Handlers :
        (/\ kind[h] = "summary" /\ pc[h] = "done"
         /\ before.ok /\ before.h = h /\ quiet /\ exit = "running"
         /\ \E s \in keys : seconds(statOf(s)) = 0)
            => /\ resp[h].status = 202
               /\ Len(result[h]) = Cardinality(keys)

(* C12: in the build with Event.UnmarshalJSON, a time member that is a     *)
(* number or a numeric string decodes to the time, an absent one to no     *)
(* time, and a string that is no number or any other shape is an error.    *)
C12_TimeFieldDecoding ==
    build = "consumeLogs"
        => \A p \in flags.times :
              /\ p.shape \in {"number", "string"} => p.out = "t"
              /\ p.shape = "absent" => p.out = "nil"
              /\ p.shape \in {"badstring", "bool", "array", "object"} => p.out = "error"

(* C13: no request is left without an answer: a request that is over was   *)
(* answered, and the process does not end while a request is in progress.  *)
C13_EveryRequestAnswered ==
    \A h \in Handlers :
        /\ pc[h] = "done" => resp[h].status > 0
        /\ exit # "running" => free(h)

(* C14: every eventSourceStat ever created has beginTime <= endTime.       *)
C14_BeginNotAfterEnd ==
    \A i \in 1..Len(heap) : heap[i].beginTime <= heap[i].endTime

C14_Witness ==
    /\ clients = "parallel" /\ build = "consumeLogs"
    /\ Len(heap) = 2
    /\ \E i \in 1..Len(heap) : heap[i].beginTime < heap[i].endTime

(* C15: the stat of a source never counts more events than were decoded    *)
(* with that source.                                                       *)
C15_NeverCountsMoreThanDelivered ==
    \A s \in Sources :
        hasStat(s) => statOf(s).eventsReceived <= delivered[s].n

C15_Witness ==
    /\ flags.reject
    /\ \E s \in Sources :
          /\ hasStat(s)
          /\ statOf(s).eventsReceived = 2
          /\ delivered[s].n = 2

(* C16: at most one eventSourceStat is ever created for a source: every    *)
(* stat created is the one its source maps to.                             *)
C16_OneStatPerSource ==
    Len(heap) = Cardinality(keys)

(* C17: a source that has a stat keeps one, and its eventsReceived and     *)
(* bytesReceived never decrease.                                           *)
C17_CountsNeverDecrease ==
    [][\A s \in Sources :
          hasStat(s)
              => /\ performanceStat'[s] # 0
                 /\ heap'[performanceStat'[s]].eventsReceived
                       >= statOf(s).eventsReceived
                 /\ heap'[performanceStat'[s]].bytesReceived
                       >= statOf(s).bytesReceived]_vars

(* C18: generatedCount of a source is 1 when its stat is created, and      *)
(* afterwards changes only when an end marker of that source is applied,   *)
(* to the count the marker carries; applying such a marker never fails.    *)
C18_GeneratedCountLastMarkerWins ==
    [][/\ \A s \in Sources :
            /\ (~hasStat(s) /\ performanceStat'[s] # 0)
                  => heap'[performanceStat'[s]].generatedCount = 1
            /\ (hasStat(s) /\ performanceStat'[s] # 0
                  /\ heap'[performanceStat'[s]].generatedCount
                        # statOf(s).generatedCount)
                  => \E g \in Goroutines :
                        /\ markerStep(g) /\ isMarker(cur(g).Event)
                        /\ cur(g).Source = s
       /\ \A g \in Goroutines :
            (/\ markerStep(g) /\ isMarker(cur(g).Event)
             /\ allDigits(Slice(cur(g).Event, 10, Len(cur(g).Event))))
                => /\ exit' = "running"
                   /\ heap'[esStat[g]].generatedCount
                         = decimalValue(Slice(cur(g).Event, 10, Len(cur(g).Event)))
                   /\ heap'[performanceStat'[cur(g).Source]].generatedCount
                         = decimalValue(Slice(cur(g).Event, 10, Len(cur(g).Event)))]_vars

(* C19: when the first request, sent alone, has been answered 202, every   *)
(* event of its batch is counted in the stat of its source, so that a      *)
(* summary starting now reports it.                                        *)
C19_AcceptedMeansApplied ==
    \A h \in Handlers :
        (/\ clients = "serial" /\ exit = "running" /\ started = 1
         /\ pc[h] = "done" /\ kind[h] = "ingest" /\ resp[h] = AcceptedResponse
         /\ \E o \in Handlers : mayStart(o))
            => \A s \in Sources :
                  delivered[s].n > 0
                      => /\ hasStat(s)
                         /\ statOf(s).eventsReceived = delivered[s].n
                         /\ statOf(s).bytesReceived = delivered[s].bytes

(* C20: a step changes the entry or the stat of a source only when it is   *)
(* a step of a goroutine applying an event of that source; the steps of a  *)
(* summary change no entry and no stat.                                    *)
C20_OnlyOwnSourceChanges ==
    [][/\ \A t \in Sources :
            (\/ performanceStat'[t] # performanceStat[t]
             \/ (hasStat(t) /\ heap'[performanceStat[t]] # statOf(t)))
                => \E g \in Goroutines :
                      /\ applying(g) /\ pc'[g] # pc[g]
                      /\ cur(g).Source = t
       /\ \A h \in Handlers :
            (\/ kind[h] = "summary" /\ ~free(h) /\ pc'[h] # pc[h]
             \/ takes(h) /\ kind'[h] = "summary")
                => accVars' = accVars]_vars

C20_Witness ==
    /\ hasStat("app1") /\ hasStat("app2")
    /\ statOf("app1").eventsReceived = 1 /\ statOf("app2").eventsReceived = 1
    /\ quiet

(* C21: every eventSourceStat has generatedCount >= 1, whatever end        *)
(* markers have been applied.                                              *)
C21_GeneratedCountAtLeastOne ==
    \A i \in 1..Len(heap) : heap[i].generatedCount >= 1

====
